---- MODULE Spec2Model ----
(***************************************************************************)
(* NgxMatCalendarBody (projects/datetime-picker/src/lib/calendar-body.ts): *)
(* the range predicates, the per-cell class bindings of the template and   *)
(* the pointer/touch gesture handlers, for NumBodies instances that share  *)
(* one document.                                                           *)
(***************************************************************************)
EXTENDS Integers, Sequences, FiniteSets, TLC

\* Number of calendar-body instances alive in the document.
NumBodies == 2
\* Number of date cells the owning view hands to a body.
NumCells == 3
\* Number of columns the owning view binds to numCols.
GridCols == 2

Bodies == 1..NumBodies

VARIABLES
    rows,            \* rows[b]: the cell rows bound to body b (<<>> while unbound)
    numCols,         \* numCols[b]
    firstRowOffset,  \* _firstRowOffset[b] (0 stands for the not yet assigned field)
    isRange,         \* isRange[b]
    startValue,      \* startValue[b]
    endValue,        \* endValue[b]
    comparisonStart, \* comparisonStart[b]
    comparisonEnd,   \* comparisonEnd[b]
    previewStart,    \* previewStart[b]
    previewEnd,      \* previewEnd[b]
    didDrag,         \* _didDragSinceMouseDown[b]
    classes,         \* classes[b][i]: class bindings last rendered for the i-th cell
    lastEvent,       \* the type of the event dispatched last ("none" before the first)
    emitted,         \* what the EventEmitters emitted while it was handled
    pointerBody,     \* the body whose grid the pointer works on (fixed per behaviour)
    sincePress,      \* history: whether that body was pressed, and the moves that
                     \* followed its last press
    dragOrigin,      \* history: the day of the cell whose press emitted dragStarted,
                     \* 0 when the last press emitted none or a click followed it
    activeCell,      \* activeCell[b]
    skipNextFocus,   \* _skipNextFocus[b] (FALSE stands for the unassigned field too)
    onStable,        \* the subscriptions waiting for the zone's next onStable
    timers,          \* the setTimeout callbacks waiting for their tick
    focused,         \* document.activeElement when a body holds it, NoNode otherwise
    focusEvents,     \* the focus events of focus() calls that the browser has yet to fire
    calls,           \* history: how many times _focusActiveCell was called
    focusCalls,      \* history: how many times focus() was called
    focusActiveCellAfterViewChecked,  \* _focusActiveCellAfterViewChecked[b]
    schedules,       \* history: the schedule calls since the last ngAfterViewChecked
    listeners,       \* the listeners registered on the hosts and on the window
    isBrowser        \* _platform.isBrowser

vars == <<rows, numCols, firstRowOffset, isRange, startValue, endValue,
          comparisonStart, comparisonEnd, previewStart, previewEnd, didDrag,
          classes, lastEvent, emitted, pointerBody, sincePress, dragOrigin,
          activeCell, skipNextFocus, onStable, timers, focused, focusEvents, calls,
          focusCalls, focusActiveCellAfterViewChecked, schedules, listeners, isBrowser>>

inputVars == <<isRange, startValue, endValue, comparisonStart, comparisonEnd,
               previewStart, previewEnd>>
gridVars == <<rows, numCols, firstRowOffset>>
historyVars == <<pointerBody, sincePress, dragOrigin>>
lifeVars == <<focusActiveCellAfterViewChecked, schedules, listeners, isBrowser>>
focusVars ==
    <<activeCell, skipNextFocus, onStable, timers, focused, focusEvents, calls, focusCalls>>

-----------------------------------------------------------------------------
\* JavaScript values: numbers, null, undefined, and a reference to a cell.

Num(n) == [k |-> "num", n |-> n]
Null == [k |-> "null", n |-> 0]
Undefined == [k |-> "undef", n |-> 0]
CellRef(n) == [k |-> "cell", n |-> n]

\* ToNumber of the abstract relational comparison: null is 0, undefined is NaN.
IsNaN(a) == a.k = "undef"
ToNumber(a) == IF a.k = "num" THEN a.n ELSE 0

\* a < b, a >= b, a <= b of JavaScript: any comparison with NaN is false.
JsLt(a, b) == ~IsNaN(a) /\ ~IsNaN(b) /\ ToNumber(a) < ToNumber(b)
JsGe(a, b) == ~IsNaN(a) /\ ~IsNaN(b) /\ ToNumber(a) >= ToNumber(b)
JsLe(a, b) == ~IsNaN(a) /\ ~IsNaN(b) /\ ToNumber(a) <= ToNumber(b)

-----------------------------------------------------------------------------
\* The range predicates.

isStartNoOrderCheck(value, start, end) ==
    end # Null /\ start # end /\ value = start

isStart(value, start, end) ==
    end # Null /\ start # end /\ JsLt(value, end) /\ value = start

isEndAtEitherBound(value, start, end) ==
    start # Null /\ start # end /\ JsGe(value, start) /\ (value = end \/ value = start)

isEndNoOrderCheck(value, start, end) ==
    start # Null /\ start # end /\ value = end

isEnd(value, start, end) ==
    start # Null /\ start # end /\ JsGe(value, start) /\ value = end

isInRangeWithIdenticalBounds(value, start, end, rangeEnabled) ==
    rangeEnabled /\ start # Null /\ end # Null
      /\ JsGe(value, start) /\ JsLe(value, end)

isInRange(value, start, end, rangeEnabled) ==
    rangeEnabled /\ start # Null /\ end # Null /\ start # end
      /\ JsGe(value, start) /\ JsLe(value, end)

_isRangeStart(b, value) == isStart(value, startValue[b], endValue[b])
_isRangeEnd(b, value) == isEnd(value, startValue[b], endValue[b])
_isInRange(b, value) == isInRange(value, startValue[b], endValue[b], isRange[b])
_isComparisonStartOfSelection(b, value) ==
    isStart(value, startValue[b], comparisonEnd[b])
_isComparisonStart(b, value) == isStart(value, comparisonStart[b], comparisonEnd[b])
_isComparisonEnd(b, value) == isEnd(value, comparisonStart[b], comparisonEnd[b])
_isInComparisonRange(b, value) ==
    isInRange(value, comparisonStart[b], comparisonEnd[b], isRange[b])
_isPreviewStart(b, value) == isStart(value, previewStart[b], previewEnd[b])
_isPreviewEnd(b, value) == isEnd(value, previewStart[b], previewEnd[b])
_isInPreview(b, value) == isInRange(value, previewStart[b], previewEnd[b], isRange[b])

-----------------------------------------------------------------------------
\* The cells and the grid the owning view binds.

\* The i-th date cell: day number i, compare key 10 * i, and a raw date whose
\* numeric value is the compare key plus a time of day (or no raw date at all).
NgxMatCalendarCell(i) ==
    [value |-> i,
     enabled |-> (i % 3 # 2),
     compareValue |-> 10 * i,
     rawValue |-> CASE i % 4 = 1 -> Num(10 * i)
                    [] i % 4 = 2 -> Num(10 * i + 5)
                    [] i % 4 = 3 -> Num(10 * i + 5)
                    [] OTHER -> Undefined]

NoCell == [value |-> 0, enabled |-> FALSE, compareValue |-> 0, rawValue |-> Undefined]

FirstRowLen == ((NumCells - 1) % GridCols) + 1
GridRowCount == 1 + ((NumCells - FirstRowLen) \div GridCols)
GridRows ==
    [r \in 1..GridRowCount |->
        IF r = 1
        THEN [c \in 1..FirstRowLen |-> NgxMatCalendarCell(c)]
        ELSE [c \in 1..GridCols |->
                 NgxMatCalendarCell(FirstRowLen + (r - 2) * GridCols + c)]]

-----------------------------------------------------------------------------
\* The document: the elements the template renders for each body, and one
\* element of the page outside every calendar body.

Element(node, b, r, c) == [node |-> node, body |-> b, row |-> r, col |-> c]
NoNode == Element("none", 0, 0, 0)
Outside == Element("outside", 0, 0, 0)
Host(b) == Element("host", b, 0, 0)
Tr(b, r) == Element("tr", b, r, 0)
LabelTd(b) == Element("labelTd", b, 0, 0)
Td(b, r, c) == Element("td", b, r, c)
Button(b, r, c) == Element("button", b, r, c)
Content(b, r, c) == Element("content", b, r, c)

\* The (row, col) positions of the rows bound to body b, 0-based as in the template.
GridPositions ==
    {p \in (0..(GridRowCount - 1)) \X (0..(GridCols - 1)) :
        p[2] < Len(GridRows[p[1] + 1])}
Positions(b) == IF rows[b] = <<>> THEN {} ELSE GridPositions

\* The elements of body b that events are dispatched on: the host, the label
\* cell of the first row, and the td, button and content span of each date cell.
Targets(b) ==
    {Host(b)}
      \cup (IF Len(rows[b]) > 0 /\ firstRowOffset[b] # 0 THEN {LabelTd(b)} ELSE {})
      \cup {Td(b, p[1], p[2]) : p \in Positions(b)}
      \cup {Button(b, p[1], p[2]) : p \in Positions(b)}
      \cup {Content(b, p[1], p[2]) : p \in Positions(b)}

Document == {Outside} \cup UNION {Targets(b) : b \in Bodies}

\* The related targets tried for a leave of body b: none, an element that is no
\* cell, and the first date cell of every body.
RelatedTargets(b) ==
    {NoNode, Outside} \cup UNION {{Td(c, 0, 0)} \cap Targets(c) : c \in Bodies}

\* The elements tried for the location of a moving touch that started on target
\* in body b: nothing, the page, the origin itself, the date cells of b and the
\* first date cell of every body.
TouchPoints(b, target) ==
    {NoNode, Outside, target}
      \cup {Content(b, p[1], p[2]) : p \in Positions(b)}
      \cup UNION {{Content(c, 0, 0)} \cap Targets(c) : c \in Bodies}

nodeName(el) ==
    CASE el.node = "host" -> "TBODY"
      [] el.node = "tr" -> "TR"
      [] el.node \in {"td", "labelTd"} -> "TD"
      [] el.node = "button" -> "BUTTON"
      [] el.node = "content" -> "SPAN"
      [] OTHER -> "DIV"

parentNode(el) ==
    CASE el.node = "content" -> Button(el.body, el.row, el.col)
      [] el.node = "button" -> Td(el.body, el.row, el.col)
      [] el.node = "td" -> Tr(el.body, el.row)
      [] el.node = "labelTd" -> Tr(el.body, 0)
      [] el.node = "tr" -> Host(el.body)
      [] el.node = "host" -> Outside
      [] OTHER -> NoNode

\* The static classes of an element: the host class of the component metadata
\* and the class attributes of the template.
classList(el) ==
    CASE el.node = "host" -> {"ngx-mat-calendar-body"}
      [] el.node = "td" -> {"mat-calendar-body-cell-container"}
      [] el.node = "labelTd" -> {"mat-calendar-body-label"}
      [] el.node = "button" -> {"mat-calendar-body-cell"}
      [] el.node = "content" -> {"mat-calendar-body-cell-content", "mat-focus-indicator"}
      [] OTHER -> {}

\* Only the date cells carry data-mat-row and data-mat-col.
hasDataMatRow(el) == el.node = "td"

\* Element.closest(".<cls>"): the nearest of el and its ancestors carrying cls.
RECURSIVE closest(_, _)
closest(el, cls) ==
    IF el = NoNode THEN NoNode
    ELSE IF cls \in classList(el) THEN el
    ELSE closest(parentNode(el), cls)

isTableCell(node) == node # NoNode /\ nodeName(node) = "TD"

getCellElementAnyTd(element) ==
    IF isTableCell(element) THEN element
    ELSE IF isTableCell(parentNode(element)) THEN parentNode(element)
    ELSE IF isTableCell(parentNode(parentNode(element)))
         THEN parentNode(parentNode(element))
    ELSE NoNode

getCellElement(element) ==
    LET cell == IF isTableCell(element) THEN element
                ELSE IF isTableCell(parentNode(element)) THEN parentNode(element)
                ELSE IF isTableCell(parentNode(parentNode(element)))
                     THEN parentNode(parentNode(element))
                ELSE NoNode
    IN IF cell # NoNode /\ hasDataMatRow(cell) THEN cell ELSE NoNode

\* this.rows[parseInt(row)][parseInt(col)] of body b for the cell element that
\* is or contains element; NoCell stands for null.
_getCellFromElement(b, element) ==
    LET cell == getCellElement(element)
    IN IF cell # NoNode /\ cell.row < Len(rows[b])
             /\ cell.col < Len(rows[b][cell.row + 1])
       THEN rows[b][cell.row + 1][cell.col + 1]
       ELSE NoCell

-----------------------------------------------------------------------------
\* The event emitters and the handlers.  A handler is given as what it emits
\* (out) and what it leaves in _didDragSinceMouseDown (drag).

Emission(b, emitter, value, event) ==
    [body |-> b, emitter |-> emitter, value |-> value, event |-> event]

\* The object { target } that _touchendHandler passes on in place of the event.
SyntheticTarget == "{target}"

_cellClickedIgnoringDrag(b, cell, event) ==
    IF cell.enabled
    THEN <<Emission(b, "selectedValueChange", Num(cell.value), event)>>
    ELSE <<>>

_cellClicked(b, cell, event) ==
    IF didDrag[b] THEN <<>>
    ELSE IF cell.enabled
         THEN <<Emission(b, "selectedValueChange", Num(cell.value), event)>>
    ELSE <<>>

_leaveHandlerIgnoringRelatedTarget(b, type, target, relatedTarget) ==
    IF previewEnd[b] # Null /\ isRange[b]
    THEN [drag |-> IF type # "blur" THEN TRUE ELSE didDrag[b],
          out |-> IF target # NoNode /\ _getCellFromElement(b, target) # NoCell
                  THEN <<Emission(b, "previewChange", Null, type)>>
                  ELSE <<>>]
    ELSE [drag |-> didDrag[b], out |-> <<>>]

_leaveHandlerCountingBlur(b, type, target, relatedTarget) ==
    IF previewEnd[b] # Null /\ isRange[b]
    THEN [drag |-> TRUE,
          out |-> IF target # NoNode
                     /\ _getCellFromElement(b, target) # NoCell
                     /\ ~(relatedTarget # NoNode
                          /\ _getCellFromElement(b, relatedTarget) # NoCell)
                  THEN <<Emission(b, "previewChange", Null, type)>>
                  ELSE <<>>]
    ELSE [drag |-> didDrag[b], out |-> <<>>]

_leaveHandler(b, type, target, relatedTarget) ==
    IF previewEnd[b] # Null /\ isRange[b]
    THEN [drag |-> IF type # "blur" THEN TRUE ELSE didDrag[b],
          out |-> IF target # NoNode
                     /\ _getCellFromElement(b, target) # NoCell
                     /\ ~(relatedTarget # NoNode
                          /\ _getCellFromElement(b, relatedTarget) # NoCell)
                  THEN <<Emission(b, "previewChange", Null, type)>>
                  ELSE <<>>]
    ELSE [drag |-> didDrag[b], out |-> <<>>]

\* target is event.target; actual is what document.elementFromPoint returns
\* for the touch location (NoNode for null); prevented tells whether the handler
\* called event.preventDefault().  The cell emitted is one of this.rows.
_touchmoveHandler(b, target, actual) ==
    IF ~isRange[b] THEN [drag |-> didDrag[b], prevented |-> FALSE, out |-> <<>>]
    ELSE LET cell == IF actual # NoNode THEN _getCellFromElement(b, actual) ELSE NoCell
         IN [drag |-> IF actual # target THEN TRUE ELSE didDrag[b],
             prevented |-> getCellElement(target) # NoNode,
             out |-> <<Emission(b, "previewChange",
                                IF cell # NoCell /\ cell.enabled
                                THEN CellRef(cell.value) ELSE Null,
                                "touchmove")>>]

\* skip is what the handler leaves in _skipNextFocus.
_enterHandlerSkippingAnyEnter(b, type, target) ==
    IF skipNextFocus[b]
    THEN [skip |-> FALSE, out |-> <<>>]
    ELSE [skip |-> skipNextFocus[b],
          out |-> IF target # NoNode /\ isRange[b]
                     /\ _getCellFromElement(b, target) # NoCell
                  THEN LET cell == _getCellFromElement(b, target)
                       IN <<Emission(b, "previewChange",
                                     IF cell.enabled THEN CellRef(cell.value) ELSE Null,
                                     type)>>
                  ELSE <<>>]

_enterHandler(b, type, target) ==
    IF skipNextFocus[b] /\ type = "focus"
    THEN [skip |-> FALSE, out |-> <<>>]
    ELSE [skip |-> skipNextFocus[b],
          out |-> IF target # NoNode /\ isRange[b]
                     /\ _getCellFromElement(b, target) # NoCell
                  THEN LET cell == _getCellFromElement(b, target)
                       IN <<Emission(b, "previewChange",
                                     IF cell.enabled THEN CellRef(cell.value) ELSE Null,
                                     type)>>
                  ELSE <<>>]

_emitActiveDateChangeOfAnyCell(b, cell, event) ==
    <<Emission(b, "activeDateChange", Num(cell.value), event)>>

_emitActiveDateChange(b, cell, event) ==
    IF cell.enabled
    THEN <<Emission(b, "activeDateChange", Num(cell.value), event)>>
    ELSE <<>>

_mousedownHandler(b, type, target) ==
    IF ~isRange[b] THEN [drag |-> didDrag[b], out |-> <<>>]
    ELSE LET cell == IF target # NoNode THEN _getCellFromElement(b, target) ELSE NoCell
         IN IF cell = NoCell \/ ~_isInRange(b, cell.rawValue)
            THEN [drag |-> FALSE, out |-> <<>>]
            ELSE [drag |-> FALSE,
                  out |-> <<Emission(b, "dragStarted", cell.rawValue, type)>>]

\* event is what the emitted value carries as its event: the mouseup event, or
\* the object the touchend handler made up.
_mouseupHandlerInAnyMode(b, target, event) ==
    LET cellElement == getCellElement(target)
    IN IF cellElement = NoNode
       THEN <<Emission(b, "dragEnded", Null, event)>>
       ELSE IF closest(cellElement, "mat-calendar-body") # Host(b)
       THEN <<>>
       ELSE LET cell == _getCellFromElement(b, cellElement)
            IN <<Emission(b, "dragEnded",
                          IF cell = NoCell \/ cell.rawValue \in {Null, Undefined}
                          THEN Null ELSE cell.rawValue,
                          event)>>

_mouseupHandler(b, target, event) ==
    IF ~isRange[b] THEN <<>>
    ELSE LET cellElement == getCellElement(target)
         IN IF cellElement = NoNode
            THEN <<Emission(b, "dragEnded", Null, event)>>
            ELSE IF closest(cellElement, "mat-calendar-body") # Host(b)
            THEN <<>>
            ELSE LET cell == _getCellFromElement(b, cellElement)
                 IN <<Emission(b, "dragEnded",
                               IF cell = NoCell \/ cell.rawValue \in {Null, Undefined}
                               THEN Null ELSE cell.rawValue,
                               event)>>

\* actual is getActualTouchTarget(event): the element at the touch location,
\* NoNode when elementFromPoint returns null.
_touchendHandler(b, actual) ==
    IF actual # NoNode THEN _mouseupHandler(b, actual, SyntheticTarget) ELSE <<>>

\* The first-row offset ngOnChanges computes when rows or numCols changed.
ngOnChangesWithoutOffset(rws, cols) == 0

ngOnChanges(rws, cols) ==
    IF Len(rws) # 0 /\ Len(rws[1]) # 0 THEN cols - Len(rws[1]) ELSE 0

-----------------------------------------------------------------------------
\* The class bindings of the template.

_isSelectedRealRangeOnly(b, value) ==
    startValue[b] # endValue[b] /\ (startValue[b] = value \/ endValue[b] = value)

_isSelected(b, value) == startValue[b] = value \/ endValue[b] = value

_isComparisonIdentical(b, value) ==
    comparisonStart[b] = comparisonEnd[b] /\ value = comparisonStart[b]

\* rows[rowIndex][colIndex] of body b, NoCell for undefined.
CellAt(b, rowIndex, colIndex) ==
    IF rowIndex >= 0 /\ rowIndex < Len(rows[b])
         /\ colIndex >= 0 /\ colIndex < Len(rows[b][rowIndex + 1])
    THEN rows[b][rowIndex + 1][colIndex + 1]
    ELSE NoCell

_isComparisonBridgeStart(b, value, rowIndex, colIndex) ==
    IF ~_isComparisonStart(b, value) \/ _isRangeStart(b, value) \/ ~_isInRange(b, value)
    THEN FALSE
    ELSE LET inRow == CellAt(b, rowIndex, colIndex - 1)
             previousCell ==
                 IF inRow # NoCell THEN inRow
                 ELSE IF rowIndex - 1 >= 0 /\ rowIndex - 1 < Len(rows[b])
                      THEN CellAt(b, rowIndex - 1, Len(rows[b][rowIndex]) - 1)
                 ELSE NoCell
         IN previousCell # NoCell /\ ~_isRangeEnd(b, Num(previousCell.compareValue))

_isComparisonBridgeEndOutsideRange(b, value, rowIndex, colIndex) ==
    IF ~_isComparisonEnd(b, value) \/ _isRangeEnd(b, value) \/ _isInRange(b, value)
    THEN FALSE
    ELSE LET inRow == CellAt(b, rowIndex, colIndex + 1)
             nextCell == IF inRow # NoCell THEN inRow ELSE CellAt(b, rowIndex + 1, 0)
         IN nextCell # NoCell /\ ~_isRangeStart(b, Num(nextCell.compareValue))

_isComparisonBridgeEnd(b, value, rowIndex, colIndex) ==
    IF ~_isComparisonEnd(b, value) \/ _isRangeEnd(b, value) \/ ~_isInRange(b, value)
    THEN FALSE
    ELSE LET inRow == CellAt(b, rowIndex, colIndex + 1)
             nextCell == IF inRow # NoCell THEN inRow ELSE CellAt(b, rowIndex + 1, 0)
         IN nextCell # NoCell /\ ~_isRangeStart(b, Num(nextCell.compareValue))

\* The number _isActiveCell compares with activeCell.
cellNumberOffsetInEveryRow(rowIndex, colIndex, cols, offset) ==
    rowIndex * cols + colIndex - offset

cellNumber(rowIndex, colIndex, cols, offset) ==
    IF rowIndex # 0 THEN rowIndex * cols + colIndex - offset
    ELSE rowIndex * cols + colIndex

_isActiveCell(b, rowIndex, colIndex) ==
    cellNumber(rowIndex, colIndex, numCols[b], firstRowOffset[b]) = activeCell[b]

\* The classes the template binds on the button and content span of the cell
\* at (rowIndex, colIndex).  A bridge predicate that returns undefined (a cell
\* without the neighbour it looks at) leaves its class unset, like false.
CellClasses(b, rowIndex, colIndex) ==
    LET item == CellAt(b, rowIndex, colIndex)
        v == Num(item.compareValue)
    IN [active |-> _isActiveCell(b, rowIndex, colIndex),
        rangeStart |-> _isRangeStart(b, v),
        rangeEnd |-> _isRangeEnd(b, v),
        inRange |-> _isInRange(b, v),
        comparisonBridgeStart |-> _isComparisonBridgeStart(b, v, rowIndex, colIndex),
        comparisonBridgeEnd |-> _isComparisonBridgeEnd(b, v, rowIndex, colIndex),
        comparisonStart |-> _isComparisonStart(b, v),
        comparisonEnd |-> _isComparisonEnd(b, v),
        inComparisonRange |-> _isInComparisonRange(b, v),
        previewStart |-> _isPreviewStart(b, v),
        previewEnd |-> _isPreviewEnd(b, v),
        inPreview |-> _isInPreview(b, v),
        selected |-> _isSelected(b, v),
        comparisonIdentical |-> _isComparisonIdentical(b, v)]

-----------------------------------------------------------------------------
\* The listeners of the constructor and of ngOnDestroy.  A listener is known by
\* the target it is registered on, the event type, the handler (an arrow
\* function of one instance) and the capture setting.

Window == Element("window", 0, 0, 0)

Handler(b, name) == [body |-> b, name |-> name]

Listener(target, type, handler, capture) ==
    [target |-> target, type |-> type, handler |-> handler, capture |-> capture]

\* What the constructor of body b registers.
addEventListeners(b, browser) ==
    {Listener(Host(b), "mouseenter", Handler(b, "_enterHandler"), TRUE),
     Listener(Host(b), "touchmove", Handler(b, "_touchmoveHandler"), TRUE),
     Listener(Host(b), "focus", Handler(b, "_enterHandler"), TRUE),
     Listener(Host(b), "mouseleave", Handler(b, "_leaveHandler"), TRUE),
     Listener(Host(b), "blur", Handler(b, "_leaveHandler"), TRUE),
     Listener(Host(b), "mousedown", Handler(b, "_mousedownHandler"), FALSE),
     Listener(Host(b), "touchstart", Handler(b, "_mousedownHandler"), FALSE)}
      \cup (IF browser
            THEN {Listener(Window, "mouseup", Handler(b, "_mouseupHandler"), FALSE),
                  Listener(Window, "touchend", Handler(b, "_touchendHandler"), FALSE)}
            ELSE {})

\* What ngOnDestroy of body b leaves registered of ls: removeEventListener
\* removes the listener of the same target, type, handler and capture setting.
ngOnDestroyLeavingWindow(b, browser, ls) ==
    ls \ {Listener(Host(b), "mouseenter", Handler(b, "_enterHandler"), TRUE),
          Listener(Host(b), "touchmove", Handler(b, "_touchmoveHandler"), TRUE),
          Listener(Host(b), "focus", Handler(b, "_enterHandler"), TRUE),
          Listener(Host(b), "mouseleave", Handler(b, "_leaveHandler"), TRUE),
          Listener(Host(b), "blur", Handler(b, "_leaveHandler"), TRUE),
          Listener(Host(b), "mousedown", Handler(b, "_mousedownHandler"), FALSE),
          Listener(Host(b), "touchstart", Handler(b, "_mousedownHandler"), FALSE)}

ngOnDestroy(b, browser, ls) ==
    (ls \ {Listener(Host(b), "mouseenter", Handler(b, "_enterHandler"), TRUE),
           Listener(Host(b), "touchmove", Handler(b, "_touchmoveHandler"), TRUE),
           Listener(Host(b), "focus", Handler(b, "_enterHandler"), TRUE),
           Listener(Host(b), "mouseleave", Handler(b, "_leaveHandler"), TRUE),
           Listener(Host(b), "blur", Handler(b, "_leaveHandler"), TRUE),
           Listener(Host(b), "mousedown", Handler(b, "_mousedownHandler"), FALSE),
           Listener(Host(b), "touchstart", Handler(b, "_mousedownHandler"), FALSE)})
      \ (IF browser
          THEN {Listener(Window, "mouseup", Handler(b, "_mouseupHandler"), FALSE),
                Listener(Window, "touchend", Handler(b, "_touchendHandler"), FALSE)}
          ELSE {})

\* Whether the handler of body b is registered for events of the type on target.
Listens(target, type, b, name, capture) ==
    Listener(target, type, Handler(b, name), capture) \in listeners

\* The view-checked hook: the focus it asks for (movePreview is left to its
\* default, true) and the flag it leaves.
ngAfterViewCheckedKeepingFlag(b) ==
    IF focusActiveCellAfterViewChecked[b]
    THEN [focus |-> <<TRUE>>, flag |-> TRUE]
    ELSE [focus |-> <<>>, flag |-> focusActiveCellAfterViewChecked[b]]

ngAfterViewChecked(b) ==
    IF focusActiveCellAfterViewChecked[b]
    THEN [focus |-> <<TRUE>>, flag |-> FALSE]
    ELSE [focus |-> <<>>, flag |-> focusActiveCellAfterViewChecked[b]]

_scheduleFocusActiveCellAfterViewChecked(b) == TRUE

-----------------------------------------------------------------------------
\* Construction, input binding and event dispatch.

DefaultNumCols == 7
DefaultActiveCell == 0

\* A freshly constructed body has asked for no focus and holds no skip flag.
\* The bodies as their constructors leave them on a platform that is a browser
\* or is none.
Constructed(browser) ==
    /\ focusActiveCellAfterViewChecked = [b \in Bodies |-> FALSE]
    /\ schedules = 0
    /\ isBrowser = browser
    /\ listeners = UNION {addEventListeners(b, browser) : b \in Bodies}

FocusIdle ==
    /\ skipNextFocus = [b \in Bodies |-> FALSE]
    /\ onStable = <<>>
    /\ timers = <<>>
    /\ focused = NoNode
    /\ focusEvents = <<>>
    /\ calls = 0
    /\ focusCalls = 0

Init ==
    /\ rows = [b \in Bodies |-> <<>>]
    /\ numCols = [b \in Bodies |-> DefaultNumCols]
    /\ firstRowOffset = [b \in Bodies |-> 0]
    /\ isRange = [b \in Bodies |-> FALSE]
    /\ startValue = [b \in Bodies |-> Undefined]
    /\ endValue = [b \in Bodies |-> Undefined]
    /\ comparisonStart = [b \in Bodies |-> Undefined]
    /\ comparisonEnd = [b \in Bodies |-> Undefined]
    /\ previewStart = [b \in Bodies |-> Null]
    /\ previewEnd = [b \in Bodies |-> Null]
    /\ didDrag = [b \in Bodies |-> FALSE]
    /\ classes = [b \in Bodies |-> <<>>]
    /\ lastEvent = "none"
    /\ emitted = <<>>
    /\ pointerBody \in Bodies
    /\ sincePress = "no press"
    /\ dragOrigin = 0
    /\ activeCell = [b \in Bodies |-> DefaultActiveCell]
    /\ FocusIdle
    /\ Constructed(TRUE)

\* The history of the moves since the last press.  A move is the pointer leaving
\* a cell by a non-blur leave while a preview end exists, or a touch moving onto
\* an element other than its origin; the history tells the moves made in range
\* mode from those made outside it.
RecordPress(b, target, out) ==
    /\ sincePress' = IF isRange[b] THEN "pressed in range mode"
                      ELSE "pressed outside range mode"
    /\ dragOrigin' = IF out # <<>> THEN _getCellFromElement(b, target).value ELSE 0
    /\ UNCHANGED pointerBody
RecordMove(b, moved) ==
    /\ sincePress' =
           IF sincePress = "no press" \/ ~moved THEN sincePress
           ELSE IF isRange[b] THEN "moved in range mode"
           ELSE IF sincePress = "moved in range mode" THEN sincePress
           ELSE "moved outside range mode"
    /\ UNCHANGED <<pointerBody, dragOrigin>>

\* The dispatch of one event of the given type: emitted holds what the handlers
\* emitted for it.
Dispatch(type, out) ==
    /\ lastEvent' = type
    /\ emitted' = out

\* What the window listeners of the bodies 1..n emit for one event, in the
\* order the bodies registered them.
RECURSIVE WindowListeners(_, _)
WindowListeners(outs, n) ==
    IF n = 0 THEN <<>> ELSE WindowListeners(outs, n - 1) \o outs[n]

\* The owning view binds the grid to every body; ngOnChanges follows.
BindGrid ==
    /\ rows[1] = <<>>
    /\ rows' = [b \in Bodies |-> GridRows]
    /\ numCols' = [b \in Bodies |-> GridCols]
    /\ firstRowOffset' = [b \in Bodies |-> ngOnChanges(GridRows, GridCols)]
    /\ UNCHANGED <<inputVars, didDrag, classes, lastEvent, emitted, historyVars, focusVars, lifeVars>>

\* The selections and previews the owning view binds while gestures run.
BoundRanges == {<<Null, Null>>, <<Num(10), Num(20)>>}
BoundPreviewEnds == {Null, Num(20)}

BindSelection(range, pair, pEnd) ==
    /\ isRange' = [b \in Bodies |-> range]
    /\ startValue' = [b \in Bodies |-> pair[1]]
    /\ endValue' = [b \in Bodies |-> pair[2]]
    /\ previewEnd' = [b \in Bodies |-> pEnd]
    /\ UNCHANGED <<gridVars, comparisonStart, comparisonEnd, previewStart, didDrag,
                   classes, lastEvent, emitted, historyVars, focusVars, lifeVars>>

Mousedown(b, type, target) ==
    LET h == _mousedownHandler(b, type, target)
    IN /\ Listens(Host(b), type, b, "_mousedownHandler", FALSE)
       /\ didDrag' = [didDrag EXCEPT ![b] = h.drag]
       /\ Dispatch(type, h.out)
       /\ RecordPress(b, target, h.out)
       /\ UNCHANGED <<gridVars, inputVars, classes, focusVars, lifeVars>>

Leave(b, type, target, relatedTarget) ==
    LET h == _leaveHandler(b, type, target, relatedTarget)
        leftCell == type # "blur" /\ getCellElement(target) # NoNode
                      /\ previewEnd[b] # Null
    IN /\ Listens(Host(b), type, b, "_leaveHandler", TRUE)
       /\ didDrag' = [didDrag EXCEPT ![b] = h.drag]
       /\ Dispatch(type, h.out)
       /\ RecordMove(b, leftCell)
       /\ UNCHANGED <<gridVars, inputVars, classes, focusVars, lifeVars>>

Touchmove(b, target, actual) ==
    LET h == _touchmoveHandler(b, target, actual)
        movedOn == actual # NoNode /\ actual # target
    IN /\ Listens(Host(b), "touchmove", b, "_touchmoveHandler", TRUE)
       /\ didDrag' = [didDrag EXCEPT ![b] = h.drag]
       /\ Dispatch("touchmove", h.out)
       /\ RecordMove(b, movedOn)
       /\ UNCHANGED <<gridVars, inputVars, classes, focusVars, lifeVars>>

Click(b, pos) ==
    /\ Dispatch("click", _cellClicked(b, CellAt(b, pos[1], pos[2]), "click"))
    /\ dragOrigin' = 0
    /\ UNCHANGED <<gridVars, inputVars, didDrag, classes, pointerBody, sincePress,
                   focusVars, lifeVars>>

\* What the listeners registered on the window emit for a mouseup on target
\* and for a touchend whose touch point is on actual.
WindowMouseup(target) ==
    WindowListeners(
        [b \in Bodies |-> IF Listens(Window, "mouseup", b, "_mouseupHandler", FALSE)
                          THEN _mouseupHandler(b, target, "mouseup") ELSE <<>>],
        NumBodies)
WindowTouchend(actual) ==
    WindowListeners(
        [b \in Bodies |-> IF Listens(Window, "touchend", b, "_touchendHandler", FALSE)
                          THEN _touchendHandler(b, actual) ELSE <<>>],
        NumBodies)

Mouseup(target) ==
    /\ Dispatch("mouseup", WindowMouseup(target))
    /\ UNCHANGED <<gridVars, inputVars, didDrag, classes, historyVars, focusVars, lifeVars>>

Touchend(actual) ==
    /\ Dispatch("touchend", WindowTouchend(actual))
    /\ UNCHANGED <<gridVars, inputVars, didDrag, classes, historyVars, focusVars, lifeVars>>

\* The host's capturing listener runs first; a focus event on a button then
\* reaches the (focus) binding of the template.
EnterDispatch(b, type, target) ==
    LET h == _enterHandler(b, type, target)
        onButton == IF type = "focus" /\ target.node = "button"
                    THEN _emitActiveDateChange(b, CellAt(b, target.row, target.col), type)
                    ELSE <<>>
    IN /\ Listens(Host(b), type, b, "_enterHandler", TRUE)
       /\ skipNextFocus' = [skipNextFocus EXCEPT ![b] = h.skip]
       /\ Dispatch(type, h.out \o onButton)
       /\ UNCHANGED <<gridVars, inputVars, didDrag, classes, historyVars,
                      activeCell, onStable, timers, calls, focusCalls, lifeVars>>

\* An enter event of the gestures, which do not follow the focus.
Enter(b, type, target) ==
    /\ EnterDispatch(b, type, target)
    /\ UNCHANGED <<focused, focusEvents>>

\* The pointer enters any element of the body; focus enters its buttons.
EnterTargets(b, type) ==
    IF type = "focus" THEN {Button(b, p[1], p[2]) : p \in Positions(b)}
    ELSE Targets(b)

\* One pointer works the grid of pointerBody; the window delivers every mouseup
\* and touchend to the listeners of all bodies.
Next ==
    \/ BindGrid
    \/ \E range \in BOOLEAN, pair \in BoundRanges, pEnd \in BoundPreviewEnds :
           BindSelection(range, pair, pEnd)
    \/ \E type \in {"mousedown", "touchstart"}, target \in Targets(pointerBody) :
           Mousedown(pointerBody, type, target)
    \/ \E type \in {"mouseleave", "blur"}, target \in Targets(pointerBody),
          relatedTarget \in RelatedTargets(pointerBody) :
           Leave(pointerBody, type, target, relatedTarget)
    \/ \E target \in Targets(pointerBody) :
           \E actual \in TouchPoints(pointerBody, target) :
               Touchmove(pointerBody, target, actual)
    \/ \E pos \in Positions(pointerBody) : Click(pointerBody, pos)
    \/ \E type \in {"mouseenter", "focus"} :
           \E target \in EnterTargets(pointerBody, type) :
               Enter(pointerBody, type, target)
    \/ \E target \in Document : Mouseup(target)
    \/ \E actual \in {NoNode} \cup Document : Touchend(actual)

Spec == Init /\ [][Next]_vars

-----------------------------------------------------------------------------
\* Rendering: the bodies hold a bound grid and any boundary values, and a change
\* detection pass evaluates the class bindings of every cell.

BoundaryValues ==
    {Null, Undefined} \cup {Num(NgxMatCalendarCell(i).compareValue) : i \in 1..NumCells}

\* Compare values of days the grid does not show: two days before its first
\* cell and one day after its last.
BeforeGrid == Num(NgxMatCalendarCell(0).compareValue)
LongBeforeGrid == Num(NgxMatCalendarCell(0).compareValue - 10)
AfterGrid == Num(NgxMatCalendarCell(NumCells + 1).compareValue)

\* The selection may reach beyond the grid on both sides, the comparison range
\* may start before it, and the preview lies within it.
SelectionValues == BoundaryValues \cup {BeforeGrid, AfterGrid}
ComparisonValues == BoundaryValues \cup {LongBeforeGrid}
PreviewValues == BoundaryValues \ {Undefined}

RenderInit ==
    /\ rows = [b \in Bodies |-> GridRows]
    /\ numCols = [b \in Bodies |-> GridCols]
    /\ firstRowOffset = [b \in Bodies |-> ngOnChanges(GridRows, GridCols)]
    /\ \E range \in BOOLEAN : isRange = [b \in Bodies |-> range]
    /\ \E v \in SelectionValues : startValue = [b \in Bodies |-> v]
    /\ \E v \in SelectionValues : endValue = [b \in Bodies |-> v]
    /\ \E v \in ComparisonValues : comparisonStart = [b \in Bodies |-> v]
    /\ \E v \in ComparisonValues : comparisonEnd = [b \in Bodies |-> v]
    /\ \E v \in PreviewValues : previewStart = [b \in Bodies |-> v]
    /\ \E v \in PreviewValues : previewEnd = [b \in Bodies |-> v]
    /\ didDrag = [b \in Bodies |-> FALSE]
    /\ classes = [b \in Bodies |-> <<>>]
    /\ lastEvent = "none"
    /\ emitted = <<>>
    /\ pointerBody = 1
    /\ sincePress = "no press"
    /\ dragOrigin = 0
    /\ activeCell = [b \in Bodies |-> DefaultActiveCell]
    /\ FocusIdle
    /\ Constructed(TRUE)

Render ==
    /\ classes' = [b \in Bodies |->
                      [p \in Positions(b) |-> CellClasses(b, p[1], p[2])]]
    /\ UNCHANGED <<gridVars, inputVars, didDrag, lastEvent, emitted, historyVars, focusVars, lifeVars>>

RenderNext == Render

RenderSpec == RenderInit /\ [][RenderNext]_vars

-----------------------------------------------------------------------------
\* Rebinding: the owning view changes one bound of one pair at a time, and the
\* change detection that follows evaluates the class bindings again.

\* The bounds tried: none, unset, and the days of the first two cells.
ReboundValues ==
    {Null, Undefined, Num(NgxMatCalendarCell(1).compareValue),
     Num(NgxMatCalendarCell(2).compareValue)}

BoundInputs ==
    {"startValue", "endValue", "comparisonStart", "comparisonEnd",
     "previewStart", "previewEnd"}

RebindInit ==
    /\ rows = [b \in Bodies |-> GridRows]
    /\ numCols = [b \in Bodies |-> GridCols]
    /\ firstRowOffset = [b \in Bodies |-> ngOnChanges(GridRows, GridCols)]
    /\ \E range \in BOOLEAN : isRange = [b \in Bodies |-> range]
    /\ startValue = [b \in Bodies |-> Undefined]
    /\ endValue = [b \in Bodies |-> Undefined]
    /\ comparisonStart = [b \in Bodies |-> Undefined]
    /\ comparisonEnd = [b \in Bodies |-> Undefined]
    /\ previewStart = [b \in Bodies |-> Null]
    /\ previewEnd = [b \in Bodies |-> Null]
    /\ didDrag = [b \in Bodies |-> FALSE]
    /\ lastEvent = "none"
    /\ emitted = <<>>
    /\ pointerBody = 1
    /\ sincePress = "no press"
    /\ dragOrigin = 0
    /\ activeCell = [b \in Bodies |-> DefaultActiveCell]
    /\ FocusIdle
    /\ Constructed(TRUE)
    /\ classes = [b \in Bodies |->
                     [p \in GridPositions |-> CellClasses(b, p[1], p[2])]]

BindBound(field, v) ==
    /\ startValue' = IF field = "startValue" THEN [b \in Bodies |-> v] ELSE startValue
    /\ endValue' = IF field = "endValue" THEN [b \in Bodies |-> v] ELSE endValue
    /\ comparisonStart' = IF field = "comparisonStart" THEN [b \in Bodies |-> v]
                          ELSE comparisonStart
    /\ comparisonEnd' = IF field = "comparisonEnd" THEN [b \in Bodies |-> v]
                        ELSE comparisonEnd
    /\ previewStart' = IF field = "previewStart" THEN [b \in Bodies |-> v]
                       ELSE previewStart
    /\ previewEnd' = IF field = "previewEnd" THEN [b \in Bodies |-> v] ELSE previewEnd
    /\ UNCHANGED <<gridVars, isRange, didDrag, lastEvent, emitted, historyVars, focusVars, lifeVars>>
    /\ classes' = [b \in Bodies |->
                      [p \in GridPositions |-> (CellClasses(b, p[1], p[2]))']]

RebindNext == \E field \in BoundInputs, v \in ReboundValues : BindBound(field, v)

RebindSpec == RebindInit /\ [][RebindNext]_vars

-----------------------------------------------------------------------------
\* Focus: the owning view moves the active cell and asks for it to be focused;
\* the zone turns stable, timers tick, and the pointer or the focus enters
\* elements of the body.

MaxCalls == 2

\* One call of _focusActiveCell on its way to its focus; stable tells whether
\* the zone's onStable has fired since the call.
Task(b, movePreview) == [body |-> b, movePreview |-> movePreview, stable |-> FALSE]

\* querySelector(".mat-calendar-body-active") on the host of b: the first button
\* in document order that the last change detection marked active.
querySelectorActive(b) ==
    LET marked == {p \in DOMAIN classes[b] : classes[b][p].active}
    IN IF marked = {} THEN NoNode
       ELSE LET first == CHOOSE p \in marked : \A q \in marked :
                             p[1] < q[1] \/ (p[1] = q[1] /\ p[2] <= q[2])
            IN Button(b, first[1], first[2])

\* What a call leaves behind: a subscription to onStable, nothing else.
_focusActiveCellWithoutStable(b, movePreview) ==
    [onStable |-> onStable,
     timers |-> Append(timers, Task(b, movePreview)),
     skip |-> skipNextFocus[b],
     focused |-> focused]

_focusActiveCell(b, movePreview) ==
    [onStable |-> Append(onStable, Task(b, movePreview)),
     timers |-> timers,
     skip |-> skipNextFocus[b],
     focused |-> focused]

\* The subscriber of onStable.pipe(take(1)): every waiting call sets its timer.
onStableSubscriber ==
    [onStable |-> <<>>,
     timers |-> timers \o [i \in DOMAIN onStable |-> [onStable[i] EXCEPT !.stable = TRUE]]]

\* The focus events outstanding after el.focus(): the browser fires one for el
\* unless el holds the focus already.
focusFiringAlways(el) == Append(focusEvents, el)

focus(el) == IF el # focused THEN Append(focusEvents, el) ELSE focusEvents

\* The timer callback of one call.
focusTimeout(task) ==
    LET el == querySelectorActive(task.body)
    IN IF el # NoNode
       THEN [skip |-> IF ~task.movePreview THEN TRUE ELSE skipNextFocus[task.body],
             focused |-> el,
             focusEvents |-> focus(el),
             focusCalls |-> focusCalls + 1]
       ELSE [skip |-> skipNextFocus[task.body],
             focused |-> focused,
             focusEvents |-> focusEvents,
             focusCalls |-> focusCalls]

FocusInit ==
    /\ rows = [b \in Bodies |-> <<>>]
    /\ numCols = [b \in Bodies |-> DefaultNumCols]
    /\ firstRowOffset = [b \in Bodies |-> 0]
    /\ \E range \in BOOLEAN : isRange = [b \in Bodies |-> range]
    /\ startValue = [b \in Bodies |-> Undefined]
    /\ endValue = [b \in Bodies |-> Undefined]
    /\ comparisonStart = [b \in Bodies |-> Undefined]
    /\ comparisonEnd = [b \in Bodies |-> Undefined]
    /\ previewStart = [b \in Bodies |-> Null]
    /\ previewEnd = [b \in Bodies |-> Null]
    /\ didDrag = [b \in Bodies |-> FALSE]
    /\ classes = [b \in Bodies |-> <<>>]
    /\ lastEvent = "none"
    /\ emitted = <<>>
    /\ pointerBody = 1
    /\ sincePress = "no press"
    /\ dragOrigin = 0
    /\ activeCell = [b \in Bodies |-> DefaultActiveCell]
    /\ FocusIdle
    /\ Constructed(TRUE)

\* The owning view binds the index of the active cell, and the change detection
\* pass that binds it evaluates the class bindings; NumCells is the index of a
\* day the grid does not show.
BindActiveCell(n) ==
    /\ activeCell' = [b \in Bodies |-> n]
    /\ UNCHANGED <<gridVars, inputVars, didDrag, lastEvent, emitted, historyVars,
                   skipNextFocus, onStable, timers, focused, focusEvents, calls, focusCalls,
                   lifeVars>>
    /\ classes' = [b \in Bodies |->
                      [p \in Positions(b) |-> (CellClasses(b, p[1], p[2]))']]

FocusActiveCell(b, movePreview) ==
    LET h == _focusActiveCell(b, movePreview)
    IN /\ calls < MaxCalls
       /\ calls' = calls + 1
       /\ onStable' = h.onStable
       /\ timers' = h.timers
       /\ skipNextFocus' = [skipNextFocus EXCEPT ![b] = h.skip]
       /\ focused' = h.focused
       /\ UNCHANGED <<gridVars, inputVars, didDrag, classes, lastEvent, emitted, historyVars,
                      activeCell, focusEvents, focusCalls, lifeVars>>

Stable ==
    /\ onStable # <<>>
    /\ onStable' = onStableSubscriber.onStable
    /\ timers' = onStableSubscriber.timers
    /\ UNCHANGED <<gridVars, inputVars, didDrag, classes, lastEvent, emitted, historyVars,
                   activeCell, skipNextFocus, focused, focusEvents, calls, focusCalls,
                   lifeVars>>

TimerTick ==
    /\ timers # <<>>
    /\ LET task == Head(timers)
           h == focusTimeout(task)
       IN /\ timers' = Tail(timers)
          /\ skipNextFocus' = [skipNextFocus EXCEPT ![task.body] = h.skip]
          /\ focused' = h.focused
          /\ focusEvents' = h.focusEvents
          /\ focusCalls' = h.focusCalls
    /\ UNCHANGED <<gridVars, inputVars, didDrag, classes, lastEvent, emitted, historyVars,
                   activeCell, onStable, calls, lifeVars>>

\* The browser fires the focus event of the oldest focus() call outstanding.
DeliverFocus ==
    /\ focusEvents # <<>>
    /\ EnterDispatch(Head(focusEvents).body, "focus", Head(focusEvents))
    /\ focusEvents' = Tail(focusEvents)
    /\ UNCHANGED focused

\* The user moves the focus to another button, once the events of the focus()
\* calls have fired.
UserFocus(b, target) ==
    /\ focusEvents = <<>>
    /\ target # focused
    /\ focused' = target
    /\ EnterDispatch(b, "focus", target)
    /\ UNCHANGED focusEvents

FocusNext ==
    \/ BindGrid
    \/ \E n \in 0..NumCells : BindActiveCell(n)
    \/ Render
    \/ \E movePreview \in BOOLEAN : FocusActiveCell(pointerBody, movePreview)
    \/ Stable
    \/ TimerTick
    \/ DeliverFocus
    \/ \E target \in EnterTargets(pointerBody, "focus") : UserFocus(pointerBody, target)
    \/ \E target \in EnterTargets(pointerBody, "mouseenter") :
           Enter(pointerBody, "mouseenter", target)

FocusSpec == FocusInit /\ [][FocusNext]_vars

-----------------------------------------------------------------------------
\* Life cycle: the owning view schedules a focus for after the next change
\* detection pass, the passes end with ngAfterViewChecked, and bodies are
\* destroyed while the window goes on delivering mouseup and touchend.

MaxSchedules == 2

LifecycleInit ==
    /\ rows = [b \in Bodies |-> GridRows]
    /\ numCols = [b \in Bodies |-> GridCols]
    /\ firstRowOffset = [b \in Bodies |-> ngOnChanges(GridRows, GridCols)]
    /\ isRange = [b \in Bodies |-> TRUE]
    /\ startValue = [b \in Bodies |-> Num(10)]
    /\ endValue = [b \in Bodies |-> Num(20)]
    /\ comparisonStart = [b \in Bodies |-> Undefined]
    /\ comparisonEnd = [b \in Bodies |-> Undefined]
    /\ previewStart = [b \in Bodies |-> Null]
    /\ previewEnd = [b \in Bodies |-> Null]
    /\ didDrag = [b \in Bodies |-> FALSE]
    /\ lastEvent = "none"
    /\ emitted = <<>>
    /\ pointerBody = 1
    /\ sincePress = "no press"
    /\ dragOrigin = 0
    /\ activeCell = [b \in Bodies |-> DefaultActiveCell]
    /\ FocusIdle
    /\ \E browser \in BOOLEAN : Constructed(browser)
    /\ classes = [b \in Bodies |->
                     [p \in GridPositions |-> CellClasses(b, p[1], p[2])]]

ScheduleFocus(b) ==
    /\ schedules < MaxSchedules
    /\ schedules' = schedules + 1
    /\ focusActiveCellAfterViewChecked' =
           [focusActiveCellAfterViewChecked EXCEPT
               ![b] = _scheduleFocusActiveCellAfterViewChecked(b)]
    /\ UNCHANGED <<gridVars, inputVars, didDrag, classes, lastEvent, emitted, historyVars,
                   focusVars, listeners, isBrowser>>

\* The end of a change detection pass that changed no binding.
AfterViewChecked(b) ==
    LET h == ngAfterViewChecked(b)
    IN /\ Len(h.focus) > 0 => calls < MaxCalls
       /\ calls' = calls + Len(h.focus)
       /\ onStable' = IF h.focus # <<>> THEN _focusActiveCell(b, h.focus[1]).onStable
                      ELSE onStable
       /\ focusActiveCellAfterViewChecked' =
              [focusActiveCellAfterViewChecked EXCEPT ![b] = h.flag]
       /\ schedules' = 0
       /\ UNCHANGED <<gridVars, inputVars, didDrag, classes, lastEvent, emitted, historyVars,
                      activeCell, skipNextFocus, timers, focused, focusEvents, focusCalls,
                      listeners, isBrowser>>

Destroy(b) ==
    /\ addEventListeners(b, isBrowser) \cap listeners # {}
    /\ listeners' = ngOnDestroy(b, isBrowser, listeners)
    /\ UNCHANGED <<gridVars, inputVars, didDrag, classes, lastEvent, emitted, historyVars,
                   focusVars, focusActiveCellAfterViewChecked, schedules, isBrowser>>

LifecycleNext ==
    \/ ScheduleFocus(pointerBody)
    \/ AfterViewChecked(pointerBody)
    \/ Stable
    \/ TimerTick
    \/ \E b \in Bodies : Destroy(b)
    \/ \E type \in {"mousedown", "touchstart"}, target \in Targets(pointerBody) :
           Mousedown(pointerBody, type, target)
    \/ \E target \in Document : Mouseup(target)
    \/ \E actual \in {NoNode} \cup Document : Touchend(actual)

LifecycleSpec == LifecycleInit /\ [][LifecycleNext]_vars

-----------------------------------------------------------------------------
\* What the gesture properties speak of.

\* The emitter and value of each emission, in order.
Signals(out) == [i \in DOMAIN out |-> <<out[i].emitter, out[i].value>>]

\* The emissions of body b among out.
EmittedBy(b, out) == SelectSeq(out, LAMBDA e : e.body = b)

\* The emissions of the given emitter among out.
EmittedOn(emitter, out) == SelectSeq(out, LAMBDA e : e.emitter = emitter)

\* The date cell (a td carrying data-mat-row) that el is, or that is its parent
\* or grandparent; NoNode when there is none.
IsDateCell(el) == el.node = "td"
DateCellOf(el) ==
    IF IsDateCell(el) THEN el
    ELSE IF IsDateCell(parentNode(el)) THEN parentNode(el)
    ELSE IF IsDateCell(parentNode(parentNode(el))) THEN parentNode(parentNode(el))
    ELSE NoNode

\* The raw value of a cell, null when it has none.
RawOrNull(cell) == IF cell.rawValue = Undefined THEN Null ELSE cell.rawValue

Presses == {"mousedown", "touchstart"}

-----------------------------------------------------------------------------
\* The range predicates as stated over integers: a bound "is not null" when it
\* is a number, and comparisons are those of the integers.

NotNull(x) == x.k = "num"

InRangeAsStated(v, start, end, rangeEnabled) ==
    /\ rangeEnabled
    /\ NotNull(start) /\ NotNull(end)
    /\ start.n # end.n
    /\ start.n <= v.n /\ v.n <= end.n

StartAsStated(v, start, end) ==
    /\ NotNull(end)
    /\ ~(NotNull(start) /\ start.n = end.n)
    /\ v.n < end.n
    /\ NotNull(start) /\ v.n = start.n

EndAsStated(v, start, end) ==
    /\ NotNull(start)
    /\ ~(NotNull(end) /\ start.n = end.n)
    /\ v.n >= start.n
    /\ NotNull(end) /\ v.n = end.n

\* The compare value of the cell rendered at position p of body b.
RenderedValue(b, p) == Num(CellAt(b, p[1], p[2]).compareValue)

\* C8: every rendered cell carries the in-range, in-comparison-range and
\* in-preview classes exactly when range mode is on, both bounds of the pair are
\* non-null and different, and start <= value <= end; so never when range mode
\* is off and never when start > end.
C8_InRangeIff ==
    \A b \in Bodies : \A p \in DOMAIN classes[b] :
        LET v == RenderedValue(b, p)
        IN /\ classes[b][p].inRange
                = InRangeAsStated(v, startValue[b], endValue[b], isRange[b])
           /\ classes[b][p].inComparisonRange
                = InRangeAsStated(v, comparisonStart[b], comparisonEnd[b], isRange[b])
           /\ classes[b][p].inPreview
                = InRangeAsStated(v, previewStart[b], previewEnd[b], isRange[b])
           /\ (~isRange[b] \/ JsLt(endValue[b], startValue[b]))
                => ~classes[b][p].inRange

\* A rendered grid in which one cell is inside the selected range and another
\* is outside it.
C8_Witness ==
    \E b \in Bodies : \E p, q \in DOMAIN classes[b] :
        /\ classes[b][p].inRange
        /\ ~classes[b][q].inRange
        /\ isRange[b]

\* C9: every rendered cell carries the range-start class exactly when the end
\* is non-null, start and end differ, value < end and value = start; the
\* comparison-start and preview-start classes follow the same rule on their
\* own pairs.
C9_StartIff ==
    \A b \in Bodies : \A p \in DOMAIN classes[b] :
        LET v == RenderedValue(b, p)
        IN /\ classes[b][p].rangeStart = StartAsStated(v, startValue[b], endValue[b])
           /\ classes[b][p].comparisonStart
                = StartAsStated(v, comparisonStart[b], comparisonEnd[b])
           /\ classes[b][p].previewStart
                = StartAsStated(v, previewStart[b], previewEnd[b])

\* A rendered grid in which one cell is the start of the selection, of the
\* comparison range and of the preview at once.
C9_Witness ==
    \E b \in Bodies : \E p \in DOMAIN classes[b] :
        /\ classes[b][p].rangeStart
        /\ classes[b][p].comparisonStart
        /\ classes[b][p].previewStart

\* C10: every rendered cell carries the range-end class exactly when the start
\* is non-null, start and end differ, value >= start and value = end; the
\* comparison-end and preview-end classes follow the same rule on their own
\* pairs.
C10_EndIff ==
    \A b \in Bodies : \A p \in DOMAIN classes[b] :
        LET v == RenderedValue(b, p)
        IN /\ classes[b][p].rangeEnd = EndAsStated(v, startValue[b], endValue[b])
           /\ classes[b][p].comparisonEnd
                = EndAsStated(v, comparisonStart[b], comparisonEnd[b])
           /\ classes[b][p].previewEnd
                = EndAsStated(v, previewStart[b], previewEnd[b])

\* A rendered grid in which one cell is the end of the selection, of the
\* comparison range and of the preview at once.
C10_Witness ==
    \E b \in Bodies : \E p \in DOMAIN classes[b] :
        /\ classes[b][p].rangeEnd
        /\ classes[b][p].comparisonEnd
        /\ classes[b][p].previewEnd

\* C11: when the two bounds of a pair are the same, no cell carries the start,
\* end or in-range class of that pair, while the cell whose value is that point
\* carries the selected class (selection) or the comparison-identical class
\* (comparison range).
C11_IdenticalBounds ==
    \A b \in Bodies : \A p \in DOMAIN classes[b] :
        LET v == RenderedValue(b, p)
            c == classes[b][p]
        IN /\ startValue[b] = endValue[b]
                => /\ ~c.rangeStart /\ ~c.rangeEnd /\ ~c.inRange
                   /\ v = startValue[b] => c.selected
           /\ comparisonStart[b] = comparisonEnd[b]
                => /\ ~c.comparisonStart /\ ~c.comparisonEnd /\ ~c.inComparisonRange
                   /\ v = comparisonStart[b] => c.comparisonIdentical
           /\ previewStart[b] = previewEnd[b]
                => ~c.previewStart /\ ~c.previewEnd /\ ~c.inPreview

\* A rendered grid in range mode whose selection and comparison range are both
\* one point, with the cell of each point flagged.
C11_Witness ==
    \E b \in Bodies : \E p, q \in DOMAIN classes[b] :
        /\ isRange[b]
        /\ startValue[b] = endValue[b] /\ RenderedValue(b, p) = startValue[b]
        /\ classes[b][p].selected /\ ~classes[b][p].inRange
        /\ comparisonStart[b] = comparisonEnd[b]
        /\ RenderedValue(b, q) = comparisonStart[b]
        /\ classes[b][q].comparisonIdentical

\* The cell before and the cell after position p in the reading order of the
\* grid of body b; NoCell when p is the first or the last cell.
PredecessorOf(b, p) ==
    IF p[2] > 0 THEN CellAt(b, p[1], p[2] - 1)
    ELSE IF p[1] > 0 THEN CellAt(b, p[1] - 1, Len(rows[b][p[1]]) - 1)
    ELSE NoCell
SuccessorOf(b, p) ==
    IF p[2] + 1 < Len(rows[b][p[1] + 1]) THEN CellAt(b, p[1], p[2] + 1)
    ELSE IF p[1] + 1 < Len(rows[b]) THEN CellAt(b, p[1] + 1, 0)
    ELSE NoCell

\* C12: a cell carries the comparison-bridge-start class exactly when it is the
\* start of the comparison range, lies in the selected range, is not the start
\* of the selected range, and the cell before it is not the end of the selected
\* range; the first cell of the grid, which has no cell before it, included.
C12_BridgeStartIff ==
    \A b \in Bodies : \A p \in DOMAIN classes[b] :
        LET v == RenderedValue(b, p)
            pred == PredecessorOf(b, p)
        IN classes[b][p].comparisonBridgeStart
             = (/\ StartAsStated(v, comparisonStart[b], comparisonEnd[b])
                /\ InRangeAsStated(v, startValue[b], endValue[b], isRange[b])
                /\ ~StartAsStated(v, startValue[b], endValue[b])
                /\ ~(pred # NoCell
                     /\ EndAsStated(Num(pred.compareValue), startValue[b], endValue[b])))

\* C13: a cell carries the comparison-bridge-end class exactly when it is the
\* end of the comparison range, lies in the selected range, is not the end of the
\* selected range, and the cell after it is not the start of the selected range;
\* the last cell of the grid, which has no cell after it, included.
C13_BridgeEndIff ==
    \A b \in Bodies : \A p \in DOMAIN classes[b] :
        LET v == RenderedValue(b, p)
            succ == SuccessorOf(b, p)
        IN classes[b][p].comparisonBridgeEnd
             = (/\ EndAsStated(v, comparisonStart[b], comparisonEnd[b])
                /\ InRangeAsStated(v, startValue[b], endValue[b], isRange[b])
                /\ ~EndAsStated(v, startValue[b], endValue[b])
                /\ ~(succ # NoCell
                     /\ StartAsStated(Num(succ.compareValue), startValue[b], endValue[b])))

\* The bridge scenario at position p of body b: range mode, a comparison range
\* that starts before the selected range and ends inside it on the cell at p
\* (selection [5,9], comparison [3,7], the cell of 7), the cell before p inside
\* the selected range and the cell after p shown by the grid.
BridgeScenario(b, p) ==
    /\ isRange[b]
    /\ NotNull(startValue[b]) /\ NotNull(endValue[b])
    /\ NotNull(comparisonStart[b]) /\ NotNull(comparisonEnd[b])
    /\ comparisonStart[b].n < startValue[b].n
    /\ startValue[b].n < comparisonEnd[b].n
    /\ comparisonEnd[b].n < endValue[b].n
    /\ RenderedValue(b, p) = comparisonEnd[b]
    /\ PredecessorOf(b, p) # NoCell
    /\ startValue[b].n <= PredecessorOf(b, p).compareValue
    /\ SuccessorOf(b, p) # NoCell

\* C14 as stated: in the bridge scenario the cell of the comparison end carries
\* the comparison-bridge-end class and does not carry the comparison-end class.
C14_BridgeEndWithoutComparisonEnd ==
    \A b \in Bodies : \A p \in DOMAIN classes[b] :
        BridgeScenario(b, p)
          => classes[b][p].comparisonBridgeEnd /\ ~classes[b][p].comparisonEnd

\* C14: in the bridge scenario the cell of the comparison end carries the
\* comparison-bridge-end class, and the comparison-end class beside it.
C14_BridgeEndBesideComparisonEnd ==
    \A b \in Bodies : \A p \in DOMAIN classes[b] :
        BridgeScenario(b, p)
          => classes[b][p].comparisonBridgeEnd /\ classes[b][p].comparisonEnd

\* The bridge scenario rendered: the cell of the comparison end is flagged as
\* the bridge end.
C14_Witness ==
    \E b \in Bodies : \E p \in DOMAIN classes[b] :
        BridgeScenario(b, p) /\ classes[b][p].comparisonBridgeEnd

-----------------------------------------------------------------------------
\* The gestures.

\* The first-row offset as stated: the column count minus the length of row 0,
\* and 0 when there are no rows or row 0 is empty.
FirstRowOffsetAsStated(b) ==
    IF Len(rows[b]) = 0 \/ Len(rows[b][1]) = 0 THEN 0
    ELSE numCols[b] - Len(rows[b][1])

\* The cells of a grid of 7 columns and 6 rows whose row 0 starts after 3 blanks.
ExampleGrid == {p \in (0..5) \X (0..6) : p[1] = 0 => p[2] < 7 - 3}

\* C15: a cell is active exactly when its row index times the column count plus
\* its column index, less the first-row offset in the rows after row 0 and less
\* nothing in row 0, equals activeCell, the offset being the one stated; and
\* with 7 columns and offset 3 the index 10 is the cell at row 1, column 6 and
\* no other.
C15_ActiveCellIndex ==
    /\ \A b \in Bodies : \A p \in Positions(b) :
           _isActiveCell(b, p[1], p[2])
             <=> (p[1] * numCols[b] + p[2]
                    - (IF p[1] > 0 THEN FirstRowOffsetAsStated(b) ELSE 0)
                  = activeCell[b])
    /\ {p \in ExampleGrid : cellNumber(p[1], p[2], 7, 3) = 10} = {<<1, 6>>}

\* A cell of a later row is the active one, behind a first row that starts
\* after a blank, and the last change detection marked it.
C15_Witness ==
    \E b \in Bodies : \E p \in DOMAIN classes[b] :
        /\ p[1] > 0 /\ firstRowOffset[b] > 0
        /\ _isActiveCell(b, p[1], p[2])
        /\ classes[b][p].active

\* C16: in range mode a focus or mouseenter whose target is or lies in a date
\* cell emits exactly one previewChange, carrying the cell when it is enabled
\* and null when it is disabled, except that a focus arriving while the
\* skip-next-focus flag is set emits nothing; an enter on an element that is no
\* cell emits nothing.
C16_EnterPreview ==
    \A type \in {"mouseenter", "focus"} :
      \A target \in EnterTargets(pointerBody, type) :
        LET h == _enterHandler(pointerBody, type, target)
        IN isRange[pointerBody]
             => IF type = "focus" /\ skipNextFocus[pointerBody]
                THEN h.out = <<>>
                ELSE IF DateCellOf(target) # NoNode
                THEN /\ Len(h.out) = 1
                     /\ h.out[1].emitter = "previewChange"
                     /\ LET td == DateCellOf(target)
                            cell == CellAt(td.body, td.row, td.col)
                        IN h.out[1].value =
                              IF cell.enabled THEN CellRef(cell.value) ELSE Null
                ELSE h.out = <<>>

\* In range mode, with the skip flag set by a programmatic focus, the pointer
\* has entered a disabled cell and the body emitted a null preview.
C16_Witness ==
    /\ isRange[pointerBody] /\ skipNextFocus[pointerBody]
    /\ focused # NoNode
    /\ lastEvent = "mouseenter"
    /\ Signals(emitted) = <<<<"previewChange", Null>>>>

LeaveDrag(type, target, relatedTarget) ==
    _leaveHandler(pointerBody, type, target, relatedTarget).drag
TouchmoveDrag(target, actual) ==
    _touchmoveHandler(pointerBody, target, actual).drag

CellUnder(actual) ==
    LET cellEl == DateCellOf(actual)
    IN [body |-> cellEl.body,
        cell |-> CellAt(cellEl.body, cellEl.row, cellEl.col)]
CellCarried(e) == [body |-> e.body, day |-> e.value.n]

\* C19: in range mode every touchmove emits exactly one previewChange, carrying
\* the cell under the touch point when that cell is enabled and null when the
\* point is on a disabled cell or on no cell; and it prevents the default
\* exactly when the origin of the touch is or lies in a date cell.
C19_TouchmovePreview ==
    \A target \in Targets(pointerBody) :
      \A actual \in TouchPoints(pointerBody, target) :
        LET h == _touchmoveHandler(pointerBody, target, actual)
        IN isRange[pointerBody]
             => /\ Len(h.out) = 1
                /\ h.out[1].emitter = "previewChange"
                /\ IF DateCellOf(actual) # NoNode /\ CellUnder(actual).cell.enabled
                   THEN /\ h.out[1].value.k = "cell"
                        /\ CellCarried(h.out[1])
                             = [body |-> CellUnder(actual).body,
                                day |-> CellUnder(actual).cell.value]
                   ELSE h.out[1].value = Null
                /\ h.prevented = (DateCellOf(target) # NoNode)

\* C20: a call of _focusActiveCell focuses nothing itself and only subscribes
\* to the zone's next stable notification; a timer is pending only for calls
\* whose notification has fired; the focuses made never outnumber the calls that
\* have run to their end; and the tick of a timer focuses the element marked
\* active at that moment, while without one it focuses nothing and leaves the
\* skip-next-focus flag as it was.
C20_FocusDeferred ==
    /\ \A movePreview \in BOOLEAN :
           LET h == _focusActiveCell(pointerBody, movePreview)
           IN /\ h.focused = focused
              /\ h.skip = skipNextFocus[pointerBody]
              /\ h.timers = timers
              /\ Len(h.onStable) = Len(onStable) + 1
    /\ \A i \in DOMAIN timers : timers[i].stable
    /\ \A i \in DOMAIN onStable : ~onStable[i].stable
    /\ focusCalls + Len(onStable) + Len(timers) <= calls
    /\ focusCalls = 0 => focusEvents = <<>> /\ \A b \in Bodies : ~skipNextFocus[b]
    /\ timers # <<>> =>
           LET task == Head(timers)
               h == focusTimeout(task)
               marked == {p \in DOMAIN classes[task.body] : classes[task.body][p].active}
           IN IF marked # {}
              THEN /\ h.focusCalls = focusCalls + 1
                   /\ \E p \in marked : h.focused = Button(task.body, p[1], p[2])
              ELSE /\ h.focusCalls = focusCalls
                   /\ h.focused = focused
                   /\ h.skip = skipNextFocus[task.body]

\* Two calls have run to their end: the tick of one found no element marked
\* active, the tick of the other focused the active cell.
C20_Witness ==
    /\ calls = 2 /\ focusCalls = 1
    /\ onStable = <<>> /\ timers = <<>>
    /\ focused # NoNode

\* The flags a rendered cell carries for the selection, for the comparison
\* range and for the preview.
RangeFlags(c) == <<c.rangeStart, c.rangeEnd, c.inRange>>
ComparisonFlags(c) ==
    <<c.comparisonStart, c.comparisonEnd, c.inComparisonRange, c.comparisonIdentical>>
PreviewFlags(c) == <<c.previewStart, c.previewEnd, c.inPreview>>

\* C21: a change of the comparison or preview bounds alone leaves the
\* range-start, range-end and in-range flags of every cell as they were; a
\* change of the selection or preview bounds alone leaves its comparison-start,
\* comparison-end, in-comparison-range and comparison-identical flags as they
\* were; and a change of the selection or comparison bounds alone leaves its
\* preview-start, preview-end and in-preview flags as they were.
C21_NoInterference ==
    [][\A b \in Bodies : \A p \in DOMAIN classes[b] :
          /\ (startValue' = startValue /\ endValue' = endValue)
                => RangeFlags(classes'[b][p]) = RangeFlags(classes[b][p])
          /\ (comparisonStart' = comparisonStart /\ comparisonEnd' = comparisonEnd)
                => ComparisonFlags(classes'[b][p]) = ComparisonFlags(classes[b][p])
          /\ (previewStart' = previewStart /\ previewEnd' = previewEnd)
                => PreviewFlags(classes'[b][p]) = PreviewFlags(classes[b][p])]_vars

\* The three pairs have been bound so that they overlap: one cell starts the
\* selection, the comparison range and the preview, and another ends all three.
C21_Witness ==
    \E b \in Bodies : \E p, q \in DOMAIN classes[b] :
        /\ classes[b][p].rangeStart /\ classes[b][p].previewStart
        /\ classes[b][p].comparisonStart
        /\ classes[b][q].rangeEnd /\ classes[b][q].inPreview = FALSE
        /\ classes[b][q].comparisonEnd /\ classes[b][q].previewEnd

\* C22: every emission of the event just dispatched carries that very event
\* as its event field, the dragEnded that a touchend brings about included.
C22_EmissionsCarryTheirEvent ==
    \A i \in DOMAIN emitted : emitted[i].event = lastEvent

\* Whether out holds a previewChange, a dragStarted or a dragEnded.
RangeModeEmission(out) ==
    \E i \in DOMAIN out : out[i].emitter \in {"previewChange", "dragStarted", "dragEnded"}

\* C23: while a body is not in range mode, no enter, leave, touchmove,
\* mousedown or touchstart on its elements and no mouseup or touchend on the
\* window makes it emit previewChange, dragStarted or dragEnded, whatever
\* happened before.
C23_SingleValueMode ==
    /\ LET b == pointerBody
       IN ~isRange[b] =>
            /\ \A type \in {"mouseenter", "focus"} : \A target \in EnterTargets(b, type) :
                   ~RangeModeEmission(_enterHandler(b, type, target).out)
            /\ \A type \in {"mouseleave", "blur"}, target \in Targets(b),
                  relatedTarget \in RelatedTargets(b) :
                   ~RangeModeEmission(_leaveHandler(b, type, target, relatedTarget).out)
            /\ \A target \in Targets(b) : \A actual \in TouchPoints(b, target) :
                   ~RangeModeEmission(_touchmoveHandler(b, target, actual).out)
            /\ \A type \in {"mousedown", "touchstart"}, target \in Targets(b) :
                   ~RangeModeEmission(_mousedownHandler(b, type, target).out)
    /\ \A b \in Bodies :
          ~isRange[b] =>
            \A target \in Document :
               /\ ~RangeModeEmission(_mouseupHandler(b, target, "mouseup"))
               /\ ~RangeModeEmission(_touchendHandler(b, target))

\* A body left range mode after a move made in it, with a preview end still
\* bound, and the mouseup dispatched last emitted nothing.
C23_Witness ==
    /\ ~isRange[pointerBody]
    /\ didDrag[pointerBody]
    /\ previewEnd[pointerBody] # Null
    /\ rows[pointerBody] # <<>>
    /\ lastEvent = "mouseup" /\ emitted = <<>>

\* C24: right after a mousedown or touchstart on an enabled cell, a click on
\* that cell emits exactly one selectedValueChange carrying the cell's value,
\* whatever happened before the press and whatever isRange is.
C24_PressThenClick ==
    [][\A type \in {"mousedown", "touchstart"} :
         \A target \in Targets(pointerBody) :
           LET td == DateCellOf(target)
               cell == CellAt(pointerBody, td.row, td.col)
           IN (td # NoNode /\ cell.enabled /\ Mousedown(pointerBody, type, target))
                => Signals((_cellClicked(pointerBody, cell, "click"))')
                     = <<<<"selectedValueChange", Num(cell.value)>>>>]_vars

\* The days of the disabled cells of body b.
DisabledDays(b) ==
    {CellAt(b, p[1], p[2]).value : p \in {q \in Positions(b) : ~CellAt(b, q[1], q[2]).enabled}}

\* Whether out holds a selectedValueChange or activeDateChange with the value of
\* a disabled cell of b, or a previewChange carrying a disabled cell of b.
NamesDisabledCell(b, out) ==
    \E i \in DOMAIN out : \E day \in DisabledDays(b) :
        \/ /\ out[i].emitter \in {"selectedValueChange", "activeDateChange"}
           /\ out[i].value = Num(day)
        \/ /\ out[i].emitter = "previewChange"
           /\ out[i].value = CellRef(day)

\* C25: no click, focus, enter or touchmove makes a body emit a
\* selectedValueChange or activeDateChange with the value of one of its disabled
\* cells, or a previewChange carrying one; on a disabled cell a click and the
\* focus binding emit nothing and an enter or touchmove in range mode emits a
\* null preview.
C25_DisabledCellsUnnamed ==
    /\ \A b \in Bodies : ~NamesDisabledCell(b, EmittedBy(b, emitted))
    /\ \A p \in Positions(pointerBody) :
          LET b == pointerBody
              cell == CellAt(b, p[1], p[2])
              focusOut == _enterHandler(b, "focus", Button(b, p[1], p[2])).out
                            \o _emitActiveDateChange(b, cell, "focus")
              enterOut == _enterHandler(b, "mouseenter", Content(b, p[1], p[2])).out
          IN /\ ~NamesDisabledCell(b, _cellClicked(b, cell, "click"))
             /\ ~NamesDisabledCell(b, focusOut)
             /\ ~NamesDisabledCell(b, enterOut)
             /\ \A target \in Targets(b) :
                   ~NamesDisabledCell(b, _touchmoveHandler(b, target, Content(b, p[1], p[2])).out)
             /\ ~cell.enabled =>
                   /\ _cellClicked(b, cell, "click") = <<>>
                   /\ _emitActiveDateChange(b, cell, "focus") = <<>>
                   /\ \A i \in DOMAIN enterOut : enterOut[i].value = Null
                   /\ \A i \in DOMAIN focusOut : focusOut[i].value = Null

\* In range mode the focus entered the button of a disabled cell: the body
\* emitted a null preview and no activeDateChange.
C25_Witness ==
    /\ isRange[pointerBody]
    /\ lastEvent = "focus"
    /\ Signals(emitted) = <<<<"previewChange", Null>>>>

\* The numbers a cell value is drawn from, and the three pairs bound to body b.
NumericValues == {v \in SelectionValues \cup ComparisonValues : v.k = "num"}
PairsOf(b) ==
    {<<startValue[b], endValue[b]>>, <<comparisonStart[b], comparisonEnd[b]>>,
     <<previewStart[b], previewEnd[b]>>}
Reversed(pair) == pair[1].k = "num" /\ pair[2].k = "num" /\ pair[1].n > pair[2].n

\* C26: for every value and every pair of bounds, null and reversed ones
\* included, isStart and isEnd are not both true, and for a reversed pair
\* neither is; so no rendered cell carries the start and the end class of the
\* same pair.
C26_StartAndEndExclusive ==
    /\ \A pair \in PairsOf(pointerBody) : \A value \in NumericValues :
           /\ ~(isStart(value, pair[1], pair[2]) /\ isEnd(value, pair[1], pair[2]))
           /\ Reversed(pair) =>
                 ~isStart(value, pair[1], pair[2]) /\ ~isEnd(value, pair[1], pair[2])
    /\ \A b \in Bodies : \A p \in DOMAIN classes[b] :
           /\ ~(classes[b][p].rangeStart /\ classes[b][p].rangeEnd)
           /\ ~(classes[b][p].comparisonStart /\ classes[b][p].comparisonEnd)
           /\ ~(classes[b][p].previewStart /\ classes[b][p].previewEnd)

\* The selection is bound reversed, both bounds on rendered cells, the preview
\* has a null start, and the cells of the reversed bounds carry neither class.
C26_Witness ==
    \E b \in Bodies : \E p, q \in DOMAIN classes[b] :
        /\ Reversed(<<startValue[b], endValue[b]>>)
        /\ RenderedValue(b, p) = startValue[b] /\ RenderedValue(b, q) = endValue[b]
        /\ ~classes[b][p].rangeStart /\ ~classes[b][q].rangeEnd
        /\ previewStart[b] = Null /\ RenderedValue(b, q) = previewEnd[b]
        /\ ~classes[b][q].previewEnd

\* The place of position p among the positions of body b in row-major order,
\* counted from 0.
RowMajorRank(b, p) ==
    Cardinality({q \in Positions(b) : q[1] < p[1] \/ (q[1] = p[1] /\ q[2] < p[2])})

\* The positions of body b that _isActiveCell holds for.
ActivePositions(b) == {p \in Positions(b) : _isActiveCell(b, p[1], p[2])}

HandledNormally(b, target, out) ==
    LET td == DateCellOf(target)
        cell == CellAt(b, td.row, td.col)
    IN IF td = NoNode THEN out = <<>>
       ELSE Signals(out) = <<<<"previewChange",
                               IF cell.enabled THEN CellRef(cell.value) ELSE Null>>>>

\* C28: while the skip-next-focus flag is set, the next focus event emits no
\* previewChange and clears the flag, and a mouseenter is handled normally and
\* leaves the flag set; while it is clear a focus event is handled normally;
\* and the flag is set only while the focus event of a focus() call is still to
\* fire, so that it never suppresses a focus the user brings about.
C28_OneFocusSuppressed ==
    LET b == pointerBody
    IN /\ \A target \in EnterTargets(b, "focus") :
             LET h == _enterHandler(b, "focus", target)
             IN IF skipNextFocus[b] THEN h.out = <<>> /\ ~h.skip
                ELSE ~h.skip /\ (isRange[b] => HandledNormally(b, target, h.out))
       /\ \A target \in EnterTargets(b, "mouseenter") :
             LET h == _enterHandler(b, "mouseenter", target)
             IN /\ h.skip = skipNextFocus[b]
                /\ isRange[b] => HandledNormally(b, target, h.out)
       /\ skipNextFocus[b] => focusEvents # <<>>

\* C29: ngAfterViewChecked calls _focusActiveCell exactly once when one or more
\* schedule calls came since the last ngAfterViewChecked, and leaves the pending
\* flag false; it calls it not at all when none came.
C29_OneFocusPerViewCheck ==
    \A b \in Bodies :
      LET h == ngAfterViewChecked(b)
      IN /\ b = pointerBody =>
               (focusActiveCellAfterViewChecked[b] <=> schedules > 0)
         /\ b = pointerBody =>
               Len(h.focus) = IF schedules > 0 THEN 1 ELSE 0
         /\ ~h.flag
         /\ _scheduleFocusActiveCellAfterViewChecked(b)

\* Two schedule calls have come since the last ngAfterViewChecked, after an
\* earlier one that called _focusActiveCell.
C29_Witness ==
    /\ schedules = 2
    /\ calls = 1
    /\ focusActiveCellAfterViewChecked[pointerBody]

\* The listeners of body b as stated: five on the host in the capture phase,
\* two on the host outside it, and two on the window of a browser.
ListenersAsStated(b, browser) ==
    {Listener(Host(b), type, Handler(b, "_enterHandler"), TRUE) :
        type \in {"mouseenter", "focus"}}
      \cup {Listener(Host(b), "touchmove", Handler(b, "_touchmoveHandler"), TRUE)}
      \cup {Listener(Host(b), type, Handler(b, "_leaveHandler"), TRUE) :
               type \in {"mouseleave", "blur"}}
      \cup {Listener(Host(b), type, Handler(b, "_mousedownHandler"), FALSE) :
               type \in {"mousedown", "touchstart"}}
      \cup {l \in {Listener(Window, "mouseup", Handler(b, "_mouseupHandler"), FALSE),
                    Listener(Window, "touchend", Handler(b, "_touchendHandler"), FALSE)} :
               browser}

\* The listeners among ls whose handler is one of body b.
ListenersOf(b, ls) == {l \in ls : l.handler.body = b}

\* C30: the constructor registers the listeners stated, on the window only in a
\* browser; ngOnDestroy removes each of them, so none of the instance stays
\* registered anywhere; and a mouseup or touchend on the window makes a
\* destroyed instance emit nothing.
C30_ListenersRemoved ==
    \A b \in Bodies :
      /\ \A browser \in BOOLEAN :
            addEventListeners(b, browser) = ListenersAsStated(b, browser)
      /\ ListenersOf(b, listeners) \in {{}, ListenersAsStated(b, isBrowser)}
      /\ ListenersOf(b, ngOnDestroy(b, isBrowser, listeners)) = {}
      /\ \A c \in Bodies \ {b} :
            ListenersOf(c, ngOnDestroy(b, isBrowser, listeners)) = ListenersOf(c, listeners)
      /\ ListenersOf(b, listeners) = {} =>
            /\ \A target \in Document : EmittedBy(b, WindowMouseup(target)) = <<>>
            /\ \A actual \in {NoNode} \cup Document :
                  EmittedBy(b, WindowTouchend(actual)) = <<>>

\* In a browser one body is destroyed and another is not, and a mouseup on the
\* window has made the other emit.
C30_Witness ==
    \E b, c \in Bodies :
        /\ isBrowser
        /\ ListenersOf(b, listeners) = {}
        /\ ListenersOf(c, listeners) # {}
        /\ lastEvent = "mouseup"
        /\ EmittedBy(c, emitted) # <<>> /\ EmittedBy(b, emitted) = <<>>

\* C1: in range mode a mousedown or touchstart emits exactly one dragStarted
\* carrying the raw value of the cell under the target when that cell's
\* compareValue lies within startValue..endValue (both non-null and different),
\* and emits nothing in every other case.
C1_DragStartedByCompareValue ==
    [][\A type \in Presses : \A target \in Targets(pointerBody) :
          LET cell == _getCellFromElement(pointerBody, target)
          IN Mousedown(pointerBody, type, target) /\ isRange[pointerBody]
               => emitted' =
                    IF cell # NoCell
                         /\ InRangeAsStated(Num(cell.compareValue),
                                            startValue[pointerBody],
                                            endValue[pointerBody], TRUE)
                    THEN <<Emission(pointerBody, "dragStarted", cell.rawValue, type)>>
                    ELSE <<>>]_vars

\* C2: in range mode a mouseup, or a touchend resolved to an element, on or
\* inside a date cell of a body makes that body emit exactly one dragEnded
\* carrying the cell's raw value (null when the cell has none).
C2_ReleaseOnOwnCell ==
    [][\A target \in Document :
          LET cellEl == DateCellOf(target)
              b == cellEl.body
          IN cellEl # NoNode /\ isRange[b] /\ (Mouseup(target) \/ Touchend(target))
               => Signals(EmittedBy(b, emitted'))
                    = << <<"dragEnded", RawOrNull(CellAt(b, cellEl.row, cellEl.col))>> >>
      ]_vars

C4_ReleaseHandledByOwnerAlone ==
    [][\A target \in Document :
          LET cellEl == DateCellOf(target)
              X == cellEl.body
          IN cellEl # NoNode /\ isRange[X] /\ (Mouseup(target) \/ Touchend(target))
               => /\ \A Y \in Bodies \ {X} : EmittedBy(Y, emitted') = <<>>
                  /\ didDrag' = didDrag
                  /\ Len(EmittedOn("dragEnded", emitted')) = 1
      ]_vars

\* C5: when a press has just emitted dragStarted, the mouseup or touchend that
\* follows in range mode emits a dragEnded of the same body, wherever it is
\* released and whatever the touch point resolves to.
C5_ReleaseEndsDrag ==
    [][/\ EmittedOn("dragStarted", emitted) # <<>>
       /\ isRange[pointerBody]
       /\ \/ \E target \in Document : Mouseup(target)
          \/ \E actual \in {NoNode} \cup Document : Touchend(actual)
       => EmittedOn("dragEnded", EmittedBy(pointerBody, emitted')) # <<>>
      ]_vars

C7_ClickAfterCancelledDrag ==
    [][/\ dragOrigin # 0
       /\ lastEvent = "mouseup"
       /\ isRange[pointerBody]
       /\ Signals(EmittedBy(pointerBody, emitted)) = << <<"dragEnded", Null>> >>
       => \A pos \in Positions(pointerBody) :
              CellAt(pointerBody, pos[1], pos[2]).value = dragOrigin
                /\ Click(pointerBody, pos)
                 => emitted' = <<>>
      ]_vars

====
